---------------------------- MODULE Spec2Model ----------------------------
(***************************************************************************)
(* Assignment-Scheduler backend: the three express routers of              *)
(* backend/src/routes (users, auth, slots) over the Supabase/Postgres      *)
(* tables users, user_roles and slots, with the triggers of the            *)
(* migrations.  Every request is handled by a process; every awaited call  *)
(* (a store query, the calendar API) is one atomic step, so requests       *)
(* interleave between awaited calls exactly as the node event loop lets    *)
(* them.  The synchronous code between two awaits belongs to the step of   *)
(* the await it follows; a request arrives (middleware, validation) in the *)
(* step of its first awaited call, which is the first point at which it    *)
(* reads or writes anything another request can see.                       *)
(***************************************************************************)
EXTENDS Integers, FiniteSets, TLC

(***************************************************************************)
(* Bounds of the model.                                                    *)
(***************************************************************************)
\* Number of requests started in one behaviour.
MaxRequests == 2
\* Number of requests that can be in flight at the same time.
MaxProcs == 2
\* Time is discretised: a day has TicksPerDay instants (00:00 is tick 0).
TicksPerDay == 3

Procs == 1..MaxProcs
\* Calendar days a request can name.
Days == {0, 1}
\* Datetimes a request can carry, day * TicksPerDay + time of day: a start
\* is an instant of day 0, an end an instant of day 0 after 00:00 or the
\* midnight that ends the day.
StartInputs == 0..(TicksPerDay - 1)
EndInputs == 1..TicksPerDay
\* "date" values a request can carry: midnight of a day.
DateInputs == {d * TicksPerDay : d \in Days}

(***************************************************************************)
(* Values of the schema and of request bodies.                             *)
(***************************************************************************)
Roles == {"scholar", "faculty", "admin"}
Statuses == {"available", "booked", "cancelled", "completed"}
\* SQL NULL of a text column, and of a UUID column.
NULL == "NULL"
NoId == 0
\* Role values a request body can carry: the enumeration, a value outside
\* it, and a missing field.
RoleInputs == Roles \cup {"bogus", ""}
\* Emails that can authenticate.
Emails == {"a@x", "f@x", "g@x", "s@x", "t@x", "n@x"}
\* Emails that role requests and logins name: the admin, a scholar and the
\* email that has never authenticated.
Targets == {"a@x", "s@x", "n@x"}
\* Emails a request body can carry ("" is a missing field).
EmailInputs == Targets \cup {""}
\* Google id tokens a login can carry: one per email, none, or a forged one.
TokenInputs == Targets \cup {"", "forged"}
\* Spellings of a uuid in a request path: the text the store prints (lower
\* case, hyphenated) and another text of the same uuid (upper case).
UuidSpellings == {"canonical", "upper"}
\* notes of a booking request body ("" is falsy: notes || null).
NoteInputs == {"", "hi"}
\* Outcomes of a store call of the booking handler: data, or an error object
\* (the store or the network failed).
StoreOutcomes == {"ok", "error"}
\* Outcomes of createCalendarEventWithMeet: a link, a response whose
\* hangoutLink and entry points are undefined, or a thrown error.
MeetOutcomes == {"link", "nolink", "throws"}

NoUser == [id |-> NoId, email |-> NULL, role |-> NULL]
NoSlot == [id |-> NoId, faculty_id |-> NoId, scholar_id |-> NoId, date |-> 0,
           start_time |-> 0, end_time |-> 0, status |-> NULL, notes |-> NULL,
           meeting_link |-> NULL]

VARIABLES
    users,        \* table users: rows [id, email, role]
    user_roles,   \* table user_roles: rows [email, role]
    slots,        \* table slots
    req,          \* per process: the request in flight and its locals
    out,          \* the response sent by the latest step, with its request
    told,         \* history: <<slot id, scholar id>> of every booking answered 200
    nreq,         \* requests started so far
    nextUserId,   \* uuid_generate_v4() of users: the next fresh id
    nextSlotId,   \* uuid_generate_v4() of slots: the next fresh id
    serial,       \* TRUE in behaviours where requests never interleave
    tokens        \* the payloads of the unexpired tokens issued by POST /auth/google

vars == <<users, user_roles, slots, req, out, told, nreq, nextUserId, nextSlotId, serial,
          tokens>>

\* A process with no request; also "no response" in out.
Idle == [op |-> "none", pc |-> "idle", user |-> NoUser,
         role |-> NULL, userId |-> NoId, spelling |-> "canonical", email |-> NULL,
         date |-> 0, start_time |-> 0, end_time |-> 0,
         slotId |-> NoId, notes |-> NULL,
         slot |-> NoSlot, outcome |-> NULL, meetingLink |-> NULL, roleData |-> NULL,
         userRole |-> NULL, tokenRole |-> NULL,
         created |-> FALSE, storeError |-> FALSE, retry |-> FALSE,
         resp |-> 0, error |-> NULL]

Active(p) == req[p].pc # "idle"

\* Processes are anonymous: a new request takes the first free one.  In a
\* serial behaviour it starts only when no request is in flight.
CanBegin(p) ==
    /\ ~Active(p)
    /\ \A q \in Procs : q < p => Active(q)
    /\ nreq < MaxRequests
    /\ serial => \A q \in Procs : ~Active(q)

\* The request a process starts: req.user is set by authenticateToken.
NewRequest(op, u) == [Idle EXCEPT !.op = op, !.pc = "begin", !.user = u]

\* What the client sent: the route, the caller and the parameters.
Inputs(r) == <<r.op, r.user.id, r.userId, r.spelling, r.role,
               IF r.op = "patchRole" THEN NULL ELSE r.email,
               r.slotId, r.notes, r.date, r.start_time, r.end_time>>

\* The request r of process p is a retry: it arrives right after a request
\* with the same inputs was answered 200 or 201.  A request in flight keeps
\* the mark it arrived with.
Retry(p, r) ==
    IF Active(p) THEN r.retry
    ELSE out.pc = "done" /\ out.resp \in {200, 201} /\ Inputs(out) = Inputs(r)

\* res.status(code).json(...): the handler ends and the response goes out.
Finish(p, r, code, err) ==
    /\ req' = [req EXCEPT ![p] = Idle]
    /\ out' = [r EXCEPT !.pc = "done", !.resp = code, !.error = err,
                        !.retry = Retry(p, r)]

\* The handler suspends at its next await.
Continue(p, r) ==
    /\ req' = [req EXCEPT ![p] = [r EXCEPT !.retry = Retry(p, r)]]
    /\ out' = Idle

(***************************************************************************)
(* middleware/auth.js                                                      *)
(***************************************************************************)
\* jwt.sign({ userId, email, role }): the payload of the token a login returns.
JwtPayload(user) == [userId |-> user.id, email |-> user.email, role |-> user.role]

\* The identity a token claims: its payload taken as req.user.
TokenClaims == {[id |-> t.userId, email |-> t.email, role |-> t.role] : t \in tokens}

\* authenticateToken: the identities a bearer token can resolve to.  The token
\* names the identity; its role is the one stored now.
authenticateToken == {u \in users : \E t \in tokens : t.userId = u.id}

\* A guard that lets every authenticated caller pass.
requireNothing(u, allowed) == TRUE

\* requireRole(...allowed): passes when the caller's role is in the set.
requireRole(u, allowed) == u.role \in allowed

(***************************************************************************)
(* Initial store: the seeded admin and the identities that have logged in  *)
(* before; the migration has copied every users.role into user_roles; the  *)
(* faculty f@x has published one slot.  n@x has never authenticated and    *)
(* has no role assignment.                                                 *)
(***************************************************************************)
SeedUsers == {[id |-> 1, email |-> "a@x", role |-> "admin"],
              [id |-> 2, email |-> "f@x", role |-> "faculty"],
              [id |-> 3, email |-> "s@x", role |-> "scholar"],
              [id |-> 4, email |-> "t@x", role |-> "scholar"],
              [id |-> 5, email |-> "g@x", role |-> "faculty"]}

\* Every identity holds the token of its last login.  g@x was admin when it
\* logged in and has been made faculty since: its token still says admin.
SeedTokens == {JwtPayload(u) : u \in {v \in SeedUsers : v.email # "g@x"}}
                  \cup {[userId |-> 5, email |-> "g@x", role |-> "admin"]}

SeedSlots == {[id |-> 1, faculty_id |-> 2, scholar_id |-> NoId, date |-> 0,
               start_time |-> 0, end_time |-> 1, status |-> "available",
               notes |-> NULL, meeting_link |-> NULL]}

Init ==
    /\ users = SeedUsers
    /\ user_roles = {[email |-> u.email, role |-> u.role] : u \in SeedUsers}
    /\ slots = SeedSlots
    /\ req = [p \in Procs |-> Idle]
    /\ out = Idle
    /\ told = {}
    /\ nreq = 0
    /\ nextUserId = Cardinality(SeedUsers) + 1
    /\ nextSlotId = Cardinality(SeedSlots) + 1
    /\ serial \in BOOLEAN
    /\ tokens = SeedTokens

\* Slot ids a request can name: those of the slots stored so far, deleted
\* ones included, and one of no slot.
SlotIds == 1..nextSlotId
\* User ids a request can name: those of the identities and one of none.
UserIds == {u.id : u \in {v \in users : v.email \in Targets}} \cup {nextUserId}

(***************************************************************************)
(* routes/slots.js: POST /slots                                            *)
(***************************************************************************)
\* new Date(x).toTimeString().split(' ')[0]: the time of day of a datetime.
TimeOnly(dt) == dt % TicksPerDay

\* new Date(date).toISOString().split('T')[0]: the calendar day of a datetime.
DateOnly(dt) == dt \div TicksPerDay

\* A handler without the range check.
NoRangeCheck(start, end) == FALSE

\* new Date(end_time) <= new Date(start_time): compared as full datetimes.
InvalidRange(start, end) == end <= start

\* An overlap query that matches no stored slot.
MatchesNothing(s, startTimeOnly, endTimeOnly) == FALSE

\* The .or(...) filter of the overlap query, over the stored times of day.
OverlapFilter(s, startTimeOnly, endTimeOnly) ==
    \/ (s.start_time <= startTimeOnly /\ s.end_time > startTimeOnly)
    \/ (s.start_time < endTimeOnly /\ s.end_time >= endTimeOnly)
    \/ (s.start_time >= startTimeOnly /\ s.end_time <= endTimeOnly)

\* An overlap query that looks at available slots only.
OverlappingAvailable(faculty_id, date, start, end) ==
    {s \in slots : /\ s.faculty_id = faculty_id
                   /\ s.date = DateOnly(date)
                   /\ s.status = "available"
                   /\ OverlapFilter(s, TimeOnly(start), TimeOnly(end))}

\* select * from slots where faculty_id = .. and date = .. and (or-filter).
Overlapping(faculty_id, date, start, end) ==
    {s \in slots : /\ s.faculty_id = faculty_id
                   /\ s.date = DateOnly(date)
                   /\ OverlapFilter(s, TimeOnly(start), TimeOnly(end))}

\* The row POST /slots inserts.
NewSlot(r) == [id |-> nextSlotId, faculty_id |-> r.user.id, scholar_id |-> NoId,
               date |-> DateOnly(r.date), start_time |-> TimeOnly(r.start_time),
               end_time |-> TimeOnly(r.end_time), status |-> "available",
               notes |-> NULL, meeting_link |-> NULL]

\* requireRole, the range check, the overlap query and the 409.
CreateSlotCheck(p, u, date, start, end) ==
    /\ CanBegin(p)
    /\ LET r == NewRequest("createSlot", u)
           body == [r EXCEPT !.date = date, !.start_time = start, !.end_time = end]
       IN IF ~requireRole(u, {"faculty", "admin"})
          THEN Finish(p, r, 403, "Forbidden")
          ELSE IF InvalidRange(start, end)
          THEN Finish(p, body, 400, "End time must be after start time")
          ELSE IF Overlapping(u.id, date, start, end) # {}
          THEN Finish(p, body, 409, "Time slot overlaps with existing slot")
          ELSE Continue(p, [body EXCEPT !.pc = "insert"])
    /\ nreq' = nreq + 1
    /\ UNCHANGED <<users, user_roles, slots, told, nextUserId, nextSlotId, serial, tokens>>

\* The insert and the 201.
CreateSlotInsert(p) ==
    /\ req[p].op = "createSlot" /\ req[p].pc = "insert"
    /\ slots' = slots \cup {NewSlot(req[p])}
    /\ nextSlotId' = nextSlotId + 1
    /\ Finish(p, [req[p] EXCEPT !.slot = NewSlot(req[p])], 201, NULL)
    /\ UNCHANGED <<users, user_roles, told, nreq, nextUserId, serial, tokens>>

(***************************************************************************)
(* routes/slots.js: POST /slots/:slotId/book                               *)
(***************************************************************************)
\* A field whose value is undefined: supabase-js leaves it out of the update.
Undefined == "undefined"
RealMeetLink == "https://meet.google.com/real"

\* generateFallbackMeetLink: a random code of the form abc-defg-hij.
generateFallbackMeetLink == "https://meet.google.com/abc-defg-hij"

\* A provisioning helper without the catch: a failure yields no link.
createMeetNoFallback(outcome) ==
    IF outcome = "link" THEN RealMeetLink ELSE Undefined

\* createRealGoogleMeet: result.meetLink, or the fallback when the call throws.
createRealGoogleMeet(outcome) ==
    CASE outcome = "link" -> RealMeetLink
      [] outcome = "nolink" -> Undefined
      [] OTHER -> generateFallbackMeetLink

\* A fetch without the status filter.
SlotById(slotId) == {s \in slots : s.id = slotId}

\* select ... from slots where id = slotId and status = 'available' (.single()).
AvailableSlot(slotId) == {s \in slots : s.id = slotId /\ s.status = "available"}

\* A booking update that does not write scholar_id.
BookedRowNoScholar(s, r) ==
    [s EXCEPT !.status = "booked",
              !.notes = IF r.notes = "" THEN NULL ELSE r.notes,
              !.meeting_link = IF r.meetingLink = Undefined THEN @ ELSE r.meetingLink]

\* The row the booking update writes over s.
BookedRow(s, r) ==
    [s EXCEPT !.status = "booked",
              !.scholar_id = r.user.id,
              !.notes = IF r.notes = "" THEN NULL ELSE r.notes,
              !.meeting_link = IF r.meetingLink = Undefined THEN @ ELSE r.meetingLink]

\* An update without its filter: every row is touched.
UpdateEveryRow(s, r) == TRUE

\* The rows the booking update touches: .eq('id', slotId).
UpdateFilter(s, r) == s.id = r.slotId

\* update slots set status, scholar_id, notes, meeting_link where id = slotId.
UpdateBooked(r) == {IF UpdateFilter(s, r) THEN BookedRow(s, r) ELSE s : s \in slots}

\* A handler that writes status 'booked' first and asks for the link later.
BookWriteFirst(p, outcome) ==
    /\ req[p].op = "book" /\ req[p].pc = "meet"
    /\ slots' = UpdateBooked(req[p])
    /\ Continue(p, [req[p] EXCEPT !.outcome = outcome,
                                  !.meetingLink = createRealGoogleMeet(outcome),
                                  !.pc = "update"])
    /\ UNCHANGED <<users, user_roles, told, nreq, nextUserId, nextSlotId, serial, tokens>>

\* requireRole, the fetch of the available slot and the 404.
BookFetch(p, u, slotId, notes) ==
    /\ CanBegin(p)
    /\ LET r == NewRequest("book", u)
           body == [r EXCEPT !.slotId = slotId, !.notes = notes]
           got == AvailableSlot(slotId)
       IN IF ~requireRole(u, {"scholar"})
          THEN Finish(p, r, 403, "Forbidden")
          ELSE IF got = {}
          THEN Finish(p, body, 404, "Slot not available")
          ELSE Continue(p, [body EXCEPT !.slot = CHOOSE s \in got : TRUE, !.pc = "meet"])
    /\ nreq' = nreq + 1
    /\ UNCHANGED <<users, user_roles, slots, told, nextUserId, nextSlotId, serial, tokens>>

BookMeet(p, outcome) ==
    /\ req[p].op = "book" /\ req[p].pc = "meet"
    /\ Continue(p, [req[p] EXCEPT !.outcome = outcome,
                                  !.meetingLink = createRealGoogleMeet(outcome),
                                  !.pc = "update"])
    /\ UNCHANGED <<users, user_roles, slots, told, nreq, nextUserId, nextSlotId, serial, tokens>>

\* The update; if (updateError) throw updateError: a failed statement writes
\* nothing and the catch answers 500.
BookUpdate(p, result) ==
    /\ req[p].op = "book" /\ req[p].pc = "update"
    /\ IF result = "error"
       THEN /\ slots' = slots
            /\ Finish(p, [req[p] EXCEPT !.storeError = TRUE], 500, "Failed to book slot")
       ELSE /\ slots' = UpdateBooked(req[p])
            /\ Continue(p, [req[p] EXCEPT !.pc = "refetch"])
    /\ UNCHANGED <<users, user_roles, told, nreq, nextUserId, nextSlotId, serial, tokens>>

\* The re-fetch by id; if (fetchError) throw fetchError: a failed call, and
\* .single() on no row, are errors thrown to the catch.
BookRefetch(p, result) ==
    /\ req[p].op = "book" /\ req[p].pc = "refetch"
    /\ LET r == req[p]
           got == {s \in slots : s.id = r.slotId}
       IN IF result = "error" \/ got = {}
          THEN /\ Finish(p, [r EXCEPT !.storeError = TRUE], 500, "Failed to book slot")
               /\ told' = told
          ELSE /\ Finish(p, [r EXCEPT !.slot = CHOOSE s \in got : TRUE], 200, NULL)
               /\ told' = told \cup {<<r.slotId, r.user.id>>}
    /\ UNCHANGED <<users, user_roles, slots, nreq, nextUserId, nextSlotId, serial, tokens>>

(***************************************************************************)
(* routes/slots.js: DELETE /slots/:slotId                                  *)
(***************************************************************************)
\* A fetch without the faculty_id filter.
AnySlot(slotId, u) == {s \in slots : s.id = slotId}

\* select * from slots where id = slotId and faculty_id = req.user.id.
OwnSlot(slotId, u) == {s \in slots : s.id = slotId /\ s.faculty_id = u.id}

\* A handler without the status check.
NeverRefused(s) == FALSE

\* slot.status === 'booked'
DeleteRefused(s) == s.status = "booked"

\* requireRole, the fetch of the caller's slot, the 404 and the 403.
DeleteFetch(p, u, slotId) ==
    /\ CanBegin(p)
    /\ LET r == NewRequest("delete", u)
           body == [r EXCEPT !.slotId = slotId]
           got == OwnSlot(slotId, u)
       IN IF ~requireRole(u, {"faculty", "admin"})
          THEN Finish(p, r, 403, "Forbidden")
          ELSE IF got = {}
          THEN Finish(p, body, 404, "Slot not found")
          ELSE IF DeleteRefused(CHOOSE s \in got : TRUE)
          THEN Finish(p, body, 403, "Cannot delete booked slot")
          ELSE Continue(p, [body EXCEPT !.slot = CHOOSE s \in got : TRUE, !.pc = "delete"])
    /\ nreq' = nreq + 1
    /\ UNCHANGED <<users, user_roles, slots, told, nextUserId, nextSlotId, serial, tokens>>

\* delete from slots where id = slotId.
DeleteExec(p) ==
    /\ req[p].op = "delete" /\ req[p].pc = "delete"
    /\ slots' = {s \in slots : s.id # req[p].slotId}
    /\ Finish(p, req[p], 200, NULL)
    /\ UNCHANGED <<users, user_roles, told, nreq, nextUserId, nextSlotId, serial, tokens>>

(***************************************************************************)
(* A booked slot is completed or cancelled from outside the routers (the   *)
(* schema allows both statuses; no route writes them).  A completed slot   *)
(* keeps its scholar and its link; a cancelled slot has neither, as the    *)
(* slot invariants of the lifecycle demand.                                *)
(***************************************************************************)
Transitioned(s, status) ==
    IF status = "cancelled"
    THEN [s EXCEPT !.status = status, !.scholar_id = NoId, !.meeting_link = NULL]
    ELSE [s EXCEPT !.status = status]

ExternalTransition(id, status) ==
    /\ \E s \in slots : s.id = id /\ s.status = "booked"
    /\ slots' = {IF s.id = id THEN Transitioned(s, status) ELSE s : s \in slots}
    /\ out' = Idle
    /\ UNCHANGED <<users, user_roles, req, told, nreq, nextUserId, nextSlotId, serial, tokens>>

NextSlots ==
    \/ \E p \in Procs : CanBegin(p) /\
          \E u \in authenticateToken, date \in DateInputs,
             start \in StartInputs, end \in EndInputs :
                CreateSlotCheck(p, u, date, start, end)
    \/ \E p \in Procs : CreateSlotInsert(p)
    \/ \E p \in Procs : CanBegin(p) /\
          \E u \in authenticateToken, slotId \in SlotIds, notes \in NoteInputs :
                BookFetch(p, u, slotId, notes)
    \/ \E p \in Procs, outcome \in MeetOutcomes : BookMeet(p, outcome)
    \/ \E p \in Procs, result \in StoreOutcomes : BookUpdate(p, result)
    \/ \E p \in Procs, result \in StoreOutcomes : BookRefetch(p, result)
    \/ \E p \in Procs : CanBegin(p) /\
          \E u \in authenticateToken, slotId \in SlotIds : DeleteFetch(p, u, slotId)
    \/ \E p \in Procs : DeleteExec(p)
    \/ \E id \in SlotIds, status \in {"completed", "cancelled"} : ExternalTransition(id, status)

\* The slots router alone: no login and no role change runs.
SlotSpec == Init /\ [][NextSlots]_vars

\* Booking and deletion of the published slots: no slot is created.
NextBookings ==
    \/ \E p \in Procs : CanBegin(p) /\
          \E u \in authenticateToken, slotId \in SlotIds, notes \in NoteInputs :
                BookFetch(p, u, slotId, notes)
    \/ \E p \in Procs, outcome \in MeetOutcomes : BookMeet(p, outcome)
    \/ \E p \in Procs, result \in StoreOutcomes : BookUpdate(p, result)
    \/ \E p \in Procs, result \in StoreOutcomes : BookRefetch(p, result)
    \/ \E p \in Procs : CanBegin(p) /\
          \E u \in authenticateToken, slotId \in SlotIds : DeleteFetch(p, u, slotId)
    \/ \E p \in Procs : DeleteExec(p)
    \/ \E id \in SlotIds, status \in {"completed", "cancelled"} : ExternalTransition(id, status)

BookingSpec == Init /\ [][NextBookings]_vars

(***************************************************************************)
(* Requests on different slots: every faculty slot of the day is stored    *)
(* and available, and the k-th request names the k-th slot, so that no two *)
(* requests of a behaviour name the same slot.                             *)
(***************************************************************************)
\* One available slot per request, owned in turn by f@x and g@x.
PairSlots == {[id |-> i, faculty_id |-> IF i % 2 = 1 THEN 2 ELSE 5, scholar_id |-> NoId,
               date |-> 0, start_time |-> (i - 1) % TicksPerDay,
               end_time |-> ((i - 1) % TicksPerDay) + 1, status |-> "available",
               notes |-> NULL, meeting_link |-> NULL] : i \in 1..MaxRequests}

PairInit ==
    /\ users = SeedUsers
    /\ user_roles = {[email |-> u.email, role |-> u.role] : u \in SeedUsers}
    /\ slots = PairSlots
    /\ req = [p \in Procs |-> Idle]
    /\ out = Idle
    /\ told = {}
    /\ nreq = 0
    /\ nextUserId = Cardinality(SeedUsers) + 1
    /\ nextSlotId = Cardinality(PairSlots) + 1
    /\ serial \in BOOLEAN
    /\ tokens = SeedTokens

NextPairs ==
    \/ \E p \in Procs : CanBegin(p) /\
          \E u \in authenticateToken, notes \in NoteInputs : BookFetch(p, u, nreq + 1, notes)
    \/ \E p \in Procs, outcome \in MeetOutcomes : BookMeet(p, outcome)
    \/ \E p \in Procs, result \in StoreOutcomes : BookUpdate(p, result)
    \/ \E p \in Procs, result \in StoreOutcomes : BookRefetch(p, result)
    \/ \E p \in Procs : CanBegin(p) /\
          \E u \in authenticateToken : DeleteFetch(p, u, nreq + 1)
    \/ \E p \in Procs : DeleteExec(p)

\* Bookings and deletes, each on a slot of its own.
PairSpec == PairInit /\ [][NextPairs]_vars

(***************************************************************************)
(* The store's role columns and the triggers of the migrations.  A         *)
(* statement and the triggers it fires are one atomic step.  db is the     *)
(* pair of tables [users, user_roles] with the number of trigger function  *)
(* runs of the statement so far.                                           *)
(***************************************************************************)
\* auth.uid() of a connection made with the service-role key.
AuthUid == NoId

\* prevent_self_role_change, BEFORE UPDATE ON users: raises when the session's
\* own row changes role.
prevent_self_role_change(old, new) == old.role # new.role /\ old.id = AuthUid

RECURSIVE UpdateUserRole(_, _, _), UpsertUserRole(_, _, _)

\* UPDATE users SET role = .. on the row old, and sync_role_to_user_roles,
\* AFTER UPDATE OF role ON users: a changed role is upserted into user_roles.
UpdateUserRole(db, old, role) ==
    LET new == [old EXCEPT !.role = role]
        db1 == [db EXCEPT !.users = (@ \ {old}) \cup {new}, !.fired = @ + 1]
    IN IF prevent_self_role_change(old, new) THEN db
       ELSE IF new.role # old.role THEN UpsertUserRole(db1, new.email, new.role)
       ELSE db1

\* INSERT INTO user_roles .. ON CONFLICT (email) DO UPDATE SET role = .., and
\* sync_user_role, AFTER INSERT OR UPDATE OF role ON user_roles: the role is
\* written to the users row of that email (email is UNIQUE: at most one row).
UpsertUserRole(db, email, role) ==
    LET db1 == [db EXCEPT !.user_roles =
                    {r \in @ : r.email # email} \cup {[email |-> email, role |-> role]},
                           !.fired = @ + 1]
        hit == {u \in db1.users : u.email = email}
    IN IF hit = {} THEN db1 ELSE UpdateUserRole(db1, CHOOSE u \in hit : TRUE, role)

\* The identities stored with an email, in a users table.
Identities(table, email) == {u \in table : u.email = email}

\* The tables as they are, and the step that writes them back.
Db == [users |-> users, user_roles |-> user_roles, fired |-> 0]
Commit(db) == users' = db.users /\ user_roles' = db.user_roles

\* An update that is not executed: the tables stay as they are.
UpdateSkipped(rows, role) == Db

\* UPDATE users SET role = .. WHERE <rows>: every matching row, with triggers.
UpdateUsersWhere(rows, role) ==
    IF rows = {} THEN Db ELSE UpdateUserRole(Db, CHOOSE u \in rows : TRUE, role)

\* A handler that takes every role value.
AnyRole(role) == TRUE

\* ['scholar', 'faculty', 'admin'].includes(role)
ValidRole(role) == role \in Roles

(***************************************************************************)
(* routes/users.js: GET /users and GET /users/roles                        *)
(***************************************************************************)
\* requireRole and the select of every identity; nothing is written.
GetUsers(p, u) ==
    /\ CanBegin(p)
    /\ LET r == NewRequest("getUsers", u)
       IN IF ~requireRole(u, {"admin"})
          THEN Finish(p, r, 403, "Forbidden")
          ELSE Finish(p, r, 200, NULL)
    /\ nreq' = nreq + 1
    /\ UNCHANGED <<users, user_roles, slots, told, nextUserId, nextSlotId, serial, tokens>>

\* requireRole and the select of every role assignment; nothing is written.
GetRoles(p, u) ==
    /\ CanBegin(p)
    /\ LET r == NewRequest("getRoles", u)
       IN IF ~requireRole(u, {"admin"})
          THEN Finish(p, r, 403, "Forbidden")
          ELSE Finish(p, r, 200, NULL)
    /\ nreq' = nreq + 1
    /\ UNCHANGED <<users, user_roles, slots, told, nextUserId, nextSlotId, serial, tokens>>

(***************************************************************************)
(* routes/users.js: PATCH /users/:userId/role                              *)
(***************************************************************************)
\* userId === req.user.id: the path parameter and the caller's id are
\* compared as strings; req.user.id is the text the store prints.
SelfById(userId, spelling, u) == userId = u.id /\ spelling = "canonical"

\* select email from users where id = userId: the column is a UUID, the store
\* parses the parameter and every spelling of a uuid names the same row.
TargetUser(userId) == {t \in users : t.id = userId}

\* requireRole, the role and self checks, and the select of the target's email.
PatchRoleSelect(p, u, userId, spelling, role) ==
    /\ CanBegin(p)
    /\ LET r == NewRequest("patchRole", u)
           body == [r EXCEPT !.userId = userId, !.spelling = spelling, !.role = role]
           target == TargetUser(userId)
       IN IF ~requireRole(u, {"admin"})
          THEN Finish(p, r, 403, "Forbidden")
          ELSE IF ~ValidRole(role)
          THEN Finish(p, body, 400, "Invalid role")
          ELSE IF SelfById(userId, spelling, u)
          THEN Finish(p, body, 403, "Cannot change your own role")
          ELSE IF target = {}
          THEN Finish(p, body, 404, "User not found")
          ELSE Continue(p, [body EXCEPT !.email = (CHOOSE t \in target : TRUE).email,
                                        !.pc = "upsert"])
    /\ nreq' = nreq + 1
    /\ UNCHANGED <<users, user_roles, slots, told, nextUserId, nextSlotId, serial, tokens>>

\* The upsert into user_roles.
PatchRoleUpsert(p) ==
    /\ req[p].op = "patchRole" /\ req[p].pc = "upsert"
    /\ Commit(UpsertUserRole(Db, req[p].email, req[p].role))
    /\ Continue(p, [req[p] EXCEPT !.pc = "update"])
    /\ UNCHANGED <<slots, told, nreq, nextUserId, nextSlotId, serial, tokens>>

\* The update of users.role by id, and the 200.
PatchRoleUpdate(p) ==
    /\ req[p].op = "patchRole" /\ req[p].pc = "update"
    /\ Commit(UpdateUsersWhere(TargetUser(req[p].userId), req[p].role))
    /\ Finish(p, req[p], 200, NULL)
    /\ UNCHANGED <<slots, told, nreq, nextUserId, nextSlotId, serial, tokens>>

(***************************************************************************)
(* routes/users.js: POST /users/roles/email                                *)
(***************************************************************************)
\* email === req.user.email
SelfByEmail(email, u) == email = u.email

\* requireRole, the body, role and self checks, and the upsert.
RolesEmailUpsert(p, u, email, role) ==
    /\ CanBegin(p)
    /\ LET r == NewRequest("rolesEmail", u)
           body == [r EXCEPT !.email = email, !.role = role]
           pass == /\ requireRole(u, {"admin"})
                   /\ email # "" /\ role # ""
                   /\ ValidRole(role)
                   /\ ~SelfByEmail(email, u)
       IN /\ IF ~requireRole(u, {"admin"})
             THEN Finish(p, r, 403, "Forbidden")
             ELSE IF email = "" \/ role = ""
             THEN Finish(p, body, 400, "Email and role are required")
             ELSE IF ~ValidRole(role)
             THEN Finish(p, body, 400, "Invalid role")
             ELSE IF SelfByEmail(email, u)
             THEN Finish(p, body, 403, "Cannot change your own role")
             ELSE Continue(p, [body EXCEPT !.pc = "select"])
          /\ IF pass THEN Commit(UpsertUserRole(Db, email, role))
             ELSE UNCHANGED <<users, user_roles>>
    /\ nreq' = nreq + 1
    /\ UNCHANGED <<slots, told, nextUserId, nextSlotId, serial, tokens>>

\* The select of the identity with that email; the 200 when there is none.
RolesEmailSelect(p) ==
    /\ req[p].op = "rolesEmail" /\ req[p].pc = "select"
    /\ IF \E t \in users : t.email = req[p].email
       THEN Continue(p, [req[p] EXCEPT !.pc = "update"])
       ELSE Finish(p, req[p], 200, NULL)
    /\ UNCHANGED <<users, user_roles, slots, told, nreq, nextUserId, nextSlotId, serial, tokens>>

\* The update of users.role by email (its error is not read), and the 200.
RolesEmailUpdate(p) ==
    /\ req[p].op = "rolesEmail" /\ req[p].pc = "update"
    /\ Commit(UpdateUsersWhere({t \in users : t.email = req[p].email}, req[p].role))
    /\ Finish(p, req[p], 200, NULL)
    /\ UNCHANGED <<slots, told, nreq, nextUserId, nextSlotId, serial, tokens>>

(***************************************************************************)
(* routes/auth.js: POST /auth/google                                       *)
(***************************************************************************)
\* A first login that gives every new identity the default role.
NewUserDefault(r) == [id |-> nextUserId, email |-> r.email, role |-> "scholar"]

\* The row the first login inserts: role is the role read from user_roles.
NewUser(r) == [id |-> nextUserId, email |-> r.email, role |-> r.userRole]

\* The token check, verifyIdToken, and the select of the email's role.
LoginSelectRole(p, token) ==
    /\ CanBegin(p)
    /\ LET r == NewRequest("login", NoUser)
           roleData == {x \in user_roles : x.email = token}
       IN IF token = ""
          THEN Finish(p, r, 400, "Token is required")
          ELSE IF token \notin Emails
          THEN Finish(p, r, 500, "Authentication failed")
          ELSE IF roleData = {}
          THEN Continue(p, [r EXCEPT !.email = token, !.userRole = "scholar",
                                     !.pc = "insertRole"])
          ELSE Continue(p, [r EXCEPT !.email = token,
                                     !.roleData = (CHOOSE x \in roleData : TRUE).role,
                                     !.userRole = (CHOOSE x \in roleData : TRUE).role,
                                     !.pc = "selectUser"])
    /\ nreq' = nreq + 1
    /\ UNCHANGED <<users, user_roles, slots, told, nextUserId, nextSlotId, serial, tokens>>

\* insert into user_roles (email, 'scholar'); a unique violation is not read.
LoginInsertRole(p) ==
    /\ req[p].op = "login" /\ req[p].pc = "insertRole"
    /\ IF \E x \in user_roles : x.email = req[p].email
       THEN UNCHANGED <<users, user_roles>>
       ELSE Commit(UpsertUserRole(Db, req[p].email, "scholar"))
    /\ Continue(p, [req[p] EXCEPT !.pc = "selectUser"])
    /\ UNCHANGED <<slots, told, nreq, nextUserId, nextSlotId, serial, tokens>>

\* select * from users where email = ..
LoginSelectUser(p) ==
    /\ req[p].op = "login" /\ req[p].pc = "selectUser"
    /\ LET got == {t \in users : t.email = req[p].email}
       IN IF got = {}
          THEN Continue(p, [req[p] EXCEPT !.pc = "insertUser"])
          ELSE Continue(p, [req[p] EXCEPT !.userId = (CHOOSE t \in got : TRUE).id,
                                          !.pc = "updateUser"])
    /\ UNCHANGED <<users, user_roles, slots, told, nreq, nextUserId, nextSlotId, serial, tokens>>

\* An insert into a users table without the UNIQUE constraint on email.
LoginInsertUnchecked(p) ==
    /\ req[p].op = "login" /\ req[p].pc = "insertUser"
    /\ users' = users \cup {NewUser(req[p])}
    /\ nextUserId' = nextUserId + 1
    /\ tokens' = tokens \cup {JwtPayload(NewUser(req[p]))}
    /\ Finish(p, [req[p] EXCEPT !.userId = nextUserId, !.created = TRUE,
                                !.tokenRole = NewUser(req[p]).role], 200, NULL)
    /\ UNCHANGED <<user_roles, slots, told, nreq, nextSlotId, serial>>

\* insert into users; email is UNIQUE, a violation is thrown to the catch.
LoginInsertUser(p) ==
    /\ req[p].op = "login" /\ req[p].pc = "insertUser"
    /\ IF \E t \in users : t.email = req[p].email
       THEN /\ Finish(p, req[p], 500, "Authentication failed")
            /\ UNCHANGED <<users, nextUserId, tokens>>
       ELSE /\ users' = users \cup {NewUser(req[p])}
            /\ nextUserId' = nextUserId + 1
            /\ tokens' = tokens \cup {JwtPayload(NewUser(req[p]))}
            /\ Finish(p, [req[p] EXCEPT !.userId = nextUserId, !.created = TRUE,
                                        !.tokenRole = NewUser(req[p]).role], 200, NULL)
    /\ UNCHANGED <<user_roles, slots, told, nreq, nextSlotId, serial>>

\* update users set .., role = userRole where id = user.id; the token carries
\* the role of the returned row.
LoginUpdateUser(p) ==
    /\ req[p].op = "login" /\ req[p].pc = "updateUser"
    /\ Commit(UpdateUsersWhere({t \in users : t.id = req[p].userId}, req[p].userRole))
    /\ tokens' = tokens \cup {JwtPayload([id |-> req[p].userId, email |-> req[p].email,
                                           role |-> req[p].userRole])}
    /\ Finish(p, [req[p] EXCEPT !.tokenRole = req[p].userRole], 200, NULL)
    /\ UNCHANGED <<slots, told, nreq, nextUserId, nextSlotId, serial>>

NextRoles ==
    \/ \E p \in Procs : CanBegin(p) /\ \E u \in authenticateToken : GetUsers(p, u)
    \/ \E p \in Procs : CanBegin(p) /\ \E u \in authenticateToken : GetRoles(p, u)
    \/ \E p \in Procs : CanBegin(p) /\
          \E u \in authenticateToken, userId \in UserIds,
             spelling \in UuidSpellings, role \in RoleInputs :
                PatchRoleSelect(p, u, userId, spelling, role)
    \/ \E p \in Procs : PatchRoleUpsert(p)
    \/ \E p \in Procs : PatchRoleUpdate(p)
    \/ \E p \in Procs : CanBegin(p) /\
          \E u \in authenticateToken, email \in EmailInputs, role \in RoleInputs :
                RolesEmailUpsert(p, u, email, role)
    \/ \E p \in Procs : RolesEmailSelect(p)
    \/ \E p \in Procs : RolesEmailUpdate(p)
    \/ \E p \in Procs : CanBegin(p) /\ \E token \in TokenInputs : LoginSelectRole(p, token)
    \/ \E p \in Procs : LoginInsertRole(p)
    \/ \E p \in Procs : LoginSelectUser(p)
    \/ \E p \in Procs : LoginInsertUser(p)
    \/ \E p \in Procs : LoginUpdateUser(p)

\* The users and auth routers alone: the slots table does not change.
RoleSpec == Init /\ [][NextRoles]_vars

(***************************************************************************)
(* The statements that write a role, one at a time, with their triggers.   *)
(* out holds the statement that ran last.                                  *)
(***************************************************************************)
Statement(op, email, role) ==
    [Idle EXCEPT !.op = op, !.email = email, !.role = role, !.pc = "done"]

\* INSERT INTO user_roles (email, role) .. ON CONFLICT (email) DO UPDATE, as
\* the role routes run it, or the login's insert for an email without record.
UpsertRoleStatement(email, role) ==
    /\ Commit(UpsertUserRole(Db, email, role))
    /\ out' = Statement("upsert", email, role)
    /\ UNCHANGED <<slots, req, told, nreq, nextUserId, nextSlotId, serial, tokens>>

\* UPDATE users SET role = .. on the identity of the email, as the role
\* routes and the login of a known identity run it.
UpdateRoleStatement(email, role) ==
    /\ Identities(users, email) # {}
    /\ Commit(UpdateUsersWhere({t \in users : t.email = email}, role))
    /\ out' = Statement("update", email, role)
    /\ UNCHANGED <<slots, req, told, nreq, nextUserId, nextSlotId, serial, tokens>>

\* INSERT INTO users of the first login: it runs after the login has found or
\* inserted the email's record, with the role the login read before; no
\* trigger is defined on this insert.
InsertUserStatement(email, role) ==
    /\ Identities(users, email) = {}
    /\ \E x \in user_roles : x.email = email
    /\ users' = users \cup {[id |-> nextUserId, email |-> email, role |-> role]}
    /\ nextUserId' = nextUserId + 1
    /\ out' = Statement("insert", email, role)
    /\ UNCHANGED <<user_roles, slots, req, told, nreq, nextSlotId, serial, tokens>>

NextStatements ==
    \/ \E email \in Targets, role \in Roles : UpsertRoleStatement(email, role)
    \/ \E email \in Targets, role \in Roles : UpdateRoleStatement(email, role)
    \/ \E email \in Targets, role \in Roles : InsertUserStatement(email, role)

\* The role tables under the statements of the handlers in any order.
SyncSpec == Init /\ [][NextStatements]_vars

(***************************************************************************)
(* Properties of the slots router.                                         *)
(***************************************************************************)
\* A request arrives in this step (its first step).
Arrives == nreq' = nreq + 1
\* Process p takes up, in this step, a request that goes on past its checks.
GoesOn(p) == req[p].pc = "idle" /\ req'[p].pc # "idle"
Quiescent == \A p \in Procs : ~Active(p)

\* C1: any two stored slots of the same faculty on the same date have
\* disjoint half-open intervals [start_time, end_time), after any
\* interleaving of slot creations and deletions.
C1_DisjointSlots ==
    \A a, b \in slots :
        (a.id # b.id /\ a.faculty_id = b.faculty_id /\ a.date = b.date)
            => (a.end_time <= b.start_time \/ b.end_time <= a.start_time)

\* C2: of the booking requests that run against one available slot exactly
\* one is answered with success: no slot has two scholars' bookings
\* answered 200.
C2_OneBookingSucceeds ==
    \A x, y \in told : x[1] = y[1] => x[2] = y[2]

\* C3: a slot is booked at most once: a scholar who was told the booking
\* succeeded is the slot's scholar_id in every later state in which the slot
\* exists (booked or completed).
C3_ToldScholarStays ==
    \A x \in told : \A s \in slots :
        (s.id = x[1] /\ s.status \in {"booked", "completed"}) => s.scholar_id = x[2]

\* C7: a DELETE by the owner of a slot whose status is 'booked' is answered
\* 403 in its first step, does not go on to the delete statement, and leaves
\* the slots table as it is.
C7_DeleteBookedForbidden ==
    [][Arrives =>
        \A s \in slots : s.status = "booked" =>
            /\ \A p \in Procs :
                   ~(GoesOn(p) /\ req'[p].op = "delete" /\ req'[p].slotId = s.id
                               /\ req'[p].user.id = s.faculty_id)
            /\ (out'.op = "delete" /\ out'.slotId = s.id /\ out'.user.id = s.faculty_id)
                   => /\ out'.resp = 403
                      /\ out'.error = "Cannot delete booked slot"
                      /\ slots' = slots]_vars

\* C7 happens: the owner's DELETE of a booked slot was answered 403 and the
\* slot is stored, still booked.
C7_Witness ==
    /\ out.op = "delete" /\ out.resp = 403 /\ out.error = "Cannot delete booked slot"
    /\ \E s \in slots : /\ s.id = out.slotId /\ s.faculty_id = out.user.id
                        /\ s.status = "booked" /\ s.scholar_id # NoId

\* C8: a DELETE by a faculty or admin caller of a stored slot whose
\* faculty_id is not the caller's id is answered 404 in its first step, does
\* not go on to the delete statement, and leaves the slots table as it is,
\* whatever the slot's status.
C8_DeleteForeignNotFound ==
    [][Arrives =>
        \A s \in slots :
            /\ \A p \in Procs :
                   ~(GoesOn(p) /\ req'[p].op = "delete" /\ req'[p].slotId = s.id
                               /\ req'[p].user.id # s.faculty_id)
            /\ (out'.op = "delete" /\ out'.slotId = s.id /\ out'.user.id # s.faculty_id
                    /\ out'.user.role \in {"faculty", "admin"})
                   => /\ out'.resp = 404
                      /\ out'.error = "Slot not found"
                      /\ slots' = slots]_vars

\* C8 happens: a faculty who does not own a booked slot was answered 404 to
\* its DELETE and the slot is stored.
C8_Witness ==
    /\ out.op = "delete" /\ out.resp = 404 /\ out.user.role = "faculty"
    /\ \E s \in slots : /\ s.id = out.slotId /\ s.faculty_id # out.user.id
                        /\ s.status = "booked"

\* C9: a slot is removed from the store only while its status is
\* 'available'.
C9_RemovedOnlyAvailable ==
    [][\A s \in slots : (\A t \in slots' : t.id # s.id) => s.status = "available"]_vars

\* C10: every stored slot has end_time > start_time as times of day.
C10_StoredRange ==
    \A s \in slots : s.end_time > s.start_time

\* C11: a slot has a scholar_id if and only if its status is 'booked' or
\* 'completed'; an 'available' slot has none.
C11_ScholarIffBooked ==
    \A s \in slots : (s.scholar_id # NoId) <=> (s.status \in {"booked", "completed"})

\* C11 happens: a booking was answered 200 and the slot, completed since,
\* still has that scholar.
C11_Witness ==
    \E s \in slots : /\ s.status = "completed"
                      /\ <<s.id, s.scholar_id>> \in told

\* C12: a slot has a non-empty meeting_link if and only if its status is
\* 'booked' or 'completed', whatever the provisioning call returned.
C12_LinkIffBooked ==
    \A s \in slots : (s.meeting_link # NULL) <=> (s.status \in {"booked", "completed"})

\* C13: a booking that found its slot available and none of whose store
\* calls failed is answered 200 whatever the provisioning call did; when the
\* call failed, the update stores the fallback link, the response returns
\* it, and the answer is 200.
C13_ProvisioningFailureAbsorbed ==
    [][/\ \A p \in Procs :
            (req[p].op = "book" /\ req[p].pc = "update" /\ req'[p].pc = "refetch"
                /\ req[p].outcome = "throws")
            => \A s \in slots' : s.id = req[p].slotId
                    => s.status = "booked" /\ s.meeting_link = generateFallbackMeetLink
       /\ (out'.op = "book" /\ out'.outcome # NULL)
            => /\ out'.resp = 200 \/ (out'.resp = 500 /\ out'.storeError)
               /\ (out'.resp = 200 /\ out'.outcome = "throws")
                    => out'.meetingLink = generateFallbackMeetLink]_vars

\* C13 happens: the provisioning call failed, the booking was answered 200
\* with the fallback link and the slot is booked with it.
C13_Witness ==
    /\ out.op = "book" /\ out.resp = 200 /\ out.outcome = "throws"
    /\ out.meetingLink = generateFallbackMeetLink
    /\ \E s \in slots : /\ s.id = out.slotId /\ s.status = "booked"
                        /\ s.meeting_link = generateFallbackMeetLink

\* The columns a booking writes.
Booking(s) == <<s.status, s.scholar_id, s.notes, s.meeting_link>>

\* C14: a booking request answered 404 changes no slot, and when a booking
\* request is answered 500 the targeted slot, if stored, has the status,
\* scholar_id, notes and meeting_link the request found when it started.
C14_FailedBookingLeavesNothing ==
    [][(out'.op = "book" /\ out'.pc = "done")
        => /\ out'.resp = 404 => slots' = slots
           /\ out'.resp = 500
                => \A s \in slots' : s.id = out'.slotId => Booking(s) = Booking(out'.slot)]_vars

\* C15: a booking request of a scholar for a slot id that is not stored, or
\* whose slot is not 'available' when it is fetched, is answered 404 'Slot
\* not available' in its first step, does not go on to the provisioning call
\* and changes no slot.
C15_UnavailableNotFound ==
    [][Arrives =>
        /\ \A p \in Procs :
               ~(GoesOn(p) /\ req'[p].op = "book"
                           /\ \A s \in slots : s.id = req'[p].slotId => s.status # "available")
        /\ (out'.op = "book" /\ out'.user.role = "scholar"
                /\ \A s \in slots : s.id = out'.slotId => s.status # "available")
               => /\ out'.resp = 404
                  /\ out'.error = "Slot not available"
                  /\ out'.outcome = NULL
                  /\ slots' = slots]_vars

\* C15 happens: a scholar asked for a slot that is booked and was answered 404.
C15_Witness ==
    /\ out.op = "book" /\ out.resp = 404 /\ out.user.role = "scholar"
    /\ \E s \in slots : s.id = out.slotId /\ s.status = "booked" /\ s.scholar_id # out.user.id

\* Stored slot s and request r overlap as half-open intervals of times of
\* day: existing.start < new.end and new.start < existing.end.
OverlapsAsStored(s, r) ==
    s.start_time < TimeOnly(r.end_time) /\ TimeOnly(r.start_time) < s.end_time

\* The instant at which an interval that starts at time of day start ends:
\* an end that is not after the start is an end on the next day.
SpanEnd(start, end) == IF end > start THEN end ELSE end + TicksPerDay

\* Stored slot s and request r overlap as the spans of instants they cover.
OverlapsAsSpans(s, r) ==
    /\ s.start_time < SpanEnd(TimeOnly(r.start_time), TimeOnly(r.end_time))
    /\ TimeOnly(r.start_time) < SpanEnd(s.start_time, s.end_time)

\* The stored slots of the request's faculty and date.
SameDay(r) == {s \in slots : s.faculty_id = r.user.id /\ s.date = DateOnly(r.date)}

\* C16: with no other request interleaved, a create request with end > start
\* is answered 409 and inserts nothing if and only if a stored slot of the
\* same faculty and date overlaps it as half-open intervals; an accepted
\* request inserts exactly one slot, 'available', owned by the caller, with no
\* scholar_id and no meeting_link.  Overlap is read in the handler's favour:
\* a 409 is right when a slot overlaps on the stored times of day or as
\* spans, an acceptance is right when no slot overlaps in one of the two.
C16_ConflictIffOverlap ==
    [][serial =>
        /\ Arrives =>
              /\ \A p \in Procs :
                    (GoesOn(p) /\ req'[p].op = "createSlot")
                    => \/ \A s \in SameDay(req'[p]) : ~OverlapsAsStored(s, req'[p])
                       \/ \A s \in SameDay(req'[p]) : ~OverlapsAsSpans(s, req'[p])
              /\ (out'.op = "createSlot" /\ out'.resp = 409)
                    => /\ \E s \in SameDay(out') :
                              OverlapsAsStored(s, out') \/ OverlapsAsSpans(s, out')
                       /\ slots' = slots
        /\ \A p \in Procs :
              (req[p].op = "createSlot" /\ req[p].pc = "insert" /\ req'[p].pc = "idle")
              => /\ slots \subseteq slots'
                 /\ Cardinality(slots' \ slots) = 1
                 /\ \A n \in slots' \ slots :
                       /\ n.status = "available" /\ n.faculty_id = req[p].user.id
                       /\ n.scholar_id = NoId /\ n.meeting_link = NULL
                       /\ out'.resp = 201]_vars

\* The answers that reject a request: validation, authorization, business.
Rejections == {400, 403, 404, 409}

\* C17: a request answered with a rejection (400, 403, 404, 409) is rejected
\* in the step in which it arrives, before any write of its handler: users,
\* user_roles and slots are the same before and after it.  The range check
\* comes before the overlap query: a create request of a permitted caller
\* with end <= start is answered 400, whatever the stored slots are.
C17_RejectedBeforeWrite ==
    [][/\ out'.resp \in Rejections
            => /\ Arrives
               /\ users' = users /\ user_roles' = user_roles /\ slots' = slots
       /\ (out'.op = "createSlot" /\ out'.resp # 403
               /\ out'.end_time <= out'.start_time)
            => out'.resp = 400
       /\ \A p \in Procs :
             (GoesOn(p) /\ req'[p].op = "createSlot")
             => req'[p].end_time > req'[p].start_time]_vars

\* A create request with end <= start that the overlap query would have
\* matched against a stored slot was answered 400.
C17_Witness ==
    /\ out.op = "createSlot" /\ out.resp = 400
    /\ out.end_time <= out.start_time
    /\ Overlapping(out.user.id, out.date, out.start_time, out.end_time) # {}

\* The role set each guarded route requires.
Required(op) ==
    CASE op \in {"createSlot", "delete"} -> {"faculty", "admin"}
      [] op = "book" -> {"scholar"}
      [] op \in {"getUsers", "getRoles", "patchRole", "rolesEmail"} -> {"admin"}
      [] OTHER -> Roles \cup {NULL}

\* The request of process p in a step: the one in flight, or the one arriving.
Acting(p) == IF Active(p) THEN req[p] ELSE req'[p]

\* C18: a guarded operation goes on past its guard, answers anything but
\* Forbidden, or changes users, user_roles or slots, only for a caller whose
\* role (as authenticated when the request arrived) is in the role set the
\* operation requires; every other caller is answered 403 Forbidden in the
\* step in which the request arrives, and nothing changes.
C18_OnlyRequiredRole ==
    [][/\ \A p \in Procs :
             req'[p] # req[p] => Acting(p).user.role \in Required(Acting(p).op)
       /\ (Arrives /\ out'.pc = "done"
               /\ out'.user.role \notin Required(out'.op))
            => /\ out'.resp = 403 /\ out'.error = "Forbidden"
               /\ users' = users /\ user_roles' = user_roles /\ slots' = slots]_vars

\* A caller whose role is outside the route's role set asked to book or to
\* delete a slot and was answered Forbidden.
C18_Witness ==
    /\ out.op \in {"book", "delete"} /\ out.pc = "done"
    /\ out.user.role \in Roles \ Required(out.op)
    /\ out.resp = 403 /\ out.error = "Forbidden"

\* The routes that change a role.
RoleMutations == {"patchRole", "rolesEmail"}

\* The role stored for the identity id, NULL when there is none.
StoredRole(id) ==
    IF \E u \in users : u.id = id THEN (CHOOSE u \in users : u.id = id).role ELSE NULL

\* C19: PATCH /users/:userId/role and POST /users/roles/email decide on the
\* role stored for the caller when the request arrives, whatever role the
\* caller's token carries: a request goes on past the guard only for a caller
\* stored as admin, a caller stored with another role is answered 403
\* Forbidden and writes nothing, and a caller stored as admin is not
\* answered Forbidden.
C19_StoredRoleAuthorizes ==
    [][/\ \A p \in Procs :
             (GoesOn(p) /\ req'[p].op \in RoleMutations)
             => StoredRole(req'[p].user.id) = "admin"
       /\ (Arrives /\ out'.pc = "done" /\ out'.op \in RoleMutations)
            => IF StoredRole(out'.user.id) = "admin"
               THEN ~(out'.resp = 403 /\ out'.error = "Forbidden")
               ELSE /\ out'.resp = 403 /\ out'.error = "Forbidden"
                    /\ users' = users /\ user_roles' = user_roles]_vars

\* A caller whose token says admin and whose stored role is another one asked
\* for a role change and was answered Forbidden.
C19_Witness ==
    /\ out.op \in RoleMutations /\ out.pc = "done"
    /\ \E t \in tokens : t.userId = out.user.id /\ t.role = "admin"
    /\ StoredRole(out.user.id) \in Roles \ {"admin"}
    /\ out.resp = 403 /\ out.error = "Forbidden"

\* Every role stored in users or user_roles is one of the three.
StoredRolesValid ==
    /\ \A u \in users : u.role \in Roles
    /\ \A r \in user_roles : r.role \in Roles

\* C20: in every reachable state every role stored in users.role and in
\* user_roles.role is scholar, faculty or admin; a role-change request of an
\* admin that carries any other role value (none included) is answered 400
\* in the step in which it arrives and writes nothing.
C20_RolesEnumerated ==
    /\ []StoredRolesValid
    /\ [][/\ \A p \in Procs :
                (GoesOn(p) /\ req'[p].op \in RoleMutations) => req'[p].role \in Roles
          /\ (Arrives /\ out'.pc = "done" /\ out'.op \in RoleMutations
                  /\ out'.user.role = "admin" /\ out'.role \notin Roles)
               => /\ out'.resp = 400
                  /\ out'.error \in {"Invalid role", "Email and role are required"}
                  /\ users' = users /\ user_roles' = user_roles]_vars

\* An admin asked to give another identity a role that is none of the three
\* and was answered 400 'Invalid role'.
C20_Witness ==
    /\ out.op \in RoleMutations /\ out.user.role = "admin"
    /\ out.role = "bogus"
    /\ out.resp = 400 /\ out.error = "Invalid role"
    /\ StoredRolesValid

(***************************************************************************)
(* Properties of the users and auth routers.                               *)
(***************************************************************************)
\* C4: when no request is in progress, every identity's users.role equals
\* the role of the user_roles record with the same email.
C4_RolesMirror ==
    Quiescent =>
        \A u \in users : \E x \in user_roles : x.email = u.email /\ x.role = u.role

\* C5: a first login of an email that has a role assignment and no identity
\* creates the identity with the assigned role and the token carries it; when
\* the login follows the assignment (no interleaving) that role is the one
\* user_roles holds.
C5_PreassignedRole ==
    (out.op = "login" /\ out.resp = 200 /\ out.created /\ out.roleData # NULL)
        => /\ \E u \in users : /\ u.id = out.userId /\ u.email = out.email
                               /\ u.role = out.roleData
           /\ out.tokenRole = out.roleData
           /\ serial => \E x \in user_roles : x.email = out.email /\ x.role = out.roleData

\* C5 happens: the admin assigned faculty to n@x, which had no identity, and
\* the login that followed created the identity.
C5_Witness ==
    /\ serial
    /\ out.op = "login" /\ out.resp = 200 /\ out.created
    /\ out.email = "n@x" /\ out.roleData = "faculty"

\* A role-change request that names its own caller (by the caller's id in
\* any spelling, or by the caller's email), with a valid role.
SelfChange(r) ==
    /\ ValidRole(r.role)
    /\ \/ r.op = "patchRole" /\ r.userId = r.user.id
       \/ r.op = "rolesEmail" /\ r.email = r.user.email

\* C6: a role-change request that targets its caller's own identity, with a
\* valid role, is answered 403 in its first step, does not go on to any
\* statement, and changes neither users nor user_roles; a caller who is not
\* an admin gets the 403 for every role-change request.
C6_SelfChangeForbidden ==
    [][Arrives =>
        /\ \A p \in Procs : ~(GoesOn(p) /\ SelfChange(req'[p]))
        /\ \/ SelfChange(out')
           \/ out'.op \in {"patchRole", "rolesEmail"} /\ out'.user.role # "admin"
           => /\ out'.resp = 403
              /\ users' = users
              /\ user_roles' = user_roles]_vars

\* C21: a login answered 200 leaves a user_roles record for its email; when
\* the email had neither a user_roles record nor an identity (the login read
\* no role and created the identity) that record is (email, 'scholar') and
\* the identity's role is 'scholar'.
C21_DefaultScholar ==
    (out.op = "login" /\ out.resp = 200)
        => /\ \E x \in user_roles : x.email = out.email
           /\ (out.roleData = NULL /\ out.created)
                => /\ [email |-> out.email, role |-> "scholar"] \in user_roles
                   /\ \E u \in users : /\ u.id = out.userId /\ u.email = out.email
                                          /\ u.role = "scholar"

\* C22: a POST /users/roles/email that passes its checks upserts the record
\* (email, role) into user_roles in its first statement; when it is answered
\* 200, the identity with that email, if there is one, has users.role equal
\* to the role of the request; a step of the request made while no identity
\* with the email exists creates none and leaves users as it is.
C22_RoleByEmailSynced ==
    [][/\ \A p \in Procs :
             (GoesOn(p) /\ req'[p].op = "rolesEmail")
             => [email |-> req'[p].email, role |-> req'[p].role] \in user_roles'
       /\ (out'.op = "rolesEmail" /\ out'.resp = 200)
            => \A u \in Identities(users', out'.email) : u.role = out'.role
       /\ \A p \in Procs :
             (Acting(p).op = "rolesEmail" /\ req'[p] # req[p]
                 /\ Identities(users, Acting(p).email) = {})
             => users' = users]_vars

\* The admin assigned a role other than the stored one to an email that has
\* an identity, and the request was answered 200.
C22_Witness ==
    /\ out.op = "rolesEmail" /\ out.resp = 200
    /\ out.email = "s@x" /\ out.role = "faculty"
    /\ [email |-> "s@x", role |-> "faculty"] \in user_roles
    /\ \E u \in users : u.email = "s@x" /\ u.role = "faculty"

Response(r) == <<r.resp, r.error, r.slot, r.meetingLink>>

\* The caller u owns a stored slot with that id.
Owns(u, slotId) == \E s \in slots : s.id = slotId /\ s.faculty_id = u.id

\* C24: the response of DELETE /slots/:slotId to a caller who owns no slot of
\* that id does not depend on the store: it is 404 'Slot not found' without
\* slot data for a faculty or admin caller and 403 'Forbidden' for any other,
\* whether a slot with that id exists or not and whatever its status, and the
\* request ends there.
C24_DeleteHidesExistence ==
    [][/\ (Arrives /\ out'.op = "delete" /\ ~Owns(out'.user, out'.slotId))
            => Response(out') =
                  IF out'.user.role \in {"faculty", "admin"}
                  THEN <<404, "Slot not found", NoSlot, NULL>>
                  ELSE <<403, "Forbidden", NoSlot, NULL>>
       /\ \A p \in Procs :
             (GoesOn(p) /\ req'[p].op = "delete") => Owns(req'[p].user, req'[p].slotId)]_vars

\* An admin who owns no slot asked to delete a slot of a faculty that is
\* booked, and was answered as for a slot that does not exist.
C24_Witness ==
    /\ out.op = "delete" /\ out.user.role = "admin"
    /\ Response(out) = <<404, "Slot not found", NoSlot, NULL>>
    /\ \E s \in slots : s.id = out.slotId /\ s.status = "booked"
    /\ \A s \in slots : s.faculty_id # out.user.id

\* The stored slots, of any status, of the request's faculty and date that
\* the overlap filter matches.
Blocking(r) ==
    {s \in SameDay(r) : OverlapFilter(s, TimeOnly(r.start_time), TimeOnly(r.end_time))}

\* C25: a create request that passes the range check is answered 409 exactly
\* when the overlap filter matches a stored slot of the caller's faculty_id
\* and of the request's date, whatever that slot's status is; slots of other
\* faculties and of other dates play no part.
C25_OverlapIgnoresStatus ==
    [][Arrives =>
          /\ (out'.op = "createSlot" /\ out'.resp = 409) => Blocking(out') # {}
          /\ (out'.op = "createSlot" /\ out'.resp \notin {400, 403}) => out'.resp = 409
          /\ \A p \in Procs :
                (GoesOn(p) /\ req'[p].op = "createSlot") => Blocking(req'[p]) = {}]_vars

\* A create request was answered 409 because of a slot that is not available
\* (booked, cancelled or completed); no available slot stood in its way.
C25_Witness ==
    /\ out.op = "createSlot" /\ out.resp = 409
    /\ Blocking(out) # {}
    /\ \A s \in Blocking(out) : s.status # "available"

\* The order of the awaited calls of a booking: the positions a handler can
\* move between in one step.
BookOrder == {<<"idle", "meet">>, <<"meet", "update">>, <<"update", "refetch">>,
              <<"update", "idle">>, <<"refetch", "idle">>}

\* C26: a booking request first fetches the slot by id with status
\* 'available', then makes the provisioning call, then writes, then
\* re-fetches; it changes slots in one step only, the write, which it takes
\* once and after the provisioning call has returned its value (a link, the
\* fallback, or none); the rows it writes are 'booked' and carry that value.
C26_BookingOrder ==
    [][\A p \in Procs :
          (Acting(p).op = "book" /\ req'[p] # req[p])
          => /\ <<req[p].pc, req'[p].pc>> \in BookOrder
             /\ req[p].pc = "idle"
                  => /\ req'[p].slot \in slots
                     /\ req'[p].slot.id = req'[p].slotId
                     /\ req'[p].slot.status = "available"
                     /\ req'[p].outcome = NULL
             /\ req[p].pc = "meet" => req'[p].outcome \in MeetOutcomes
             /\ slots' # slots
                  => /\ req[p].pc = "update"
                     /\ req[p].outcome \in MeetOutcomes
                     /\ req[p].meetingLink = createRealGoogleMeet(req[p].outcome)
                     /\ \A s \in slots' \ slots :
                           /\ s.id = req[p].slotId /\ s.status = "booked"
                           /\ s.meeting_link \in {req[p].meetingLink}
                                  \cup {t.meeting_link : t \in slots}]_vars

\* A booking has written its slot, with the link the provisioning call
\* returned, and is about to re-fetch it.
C26_Witness ==
    \E p \in Procs :
        /\ req[p].op = "book" /\ req[p].pc = "refetch"
        /\ req[p].outcome = "link"
        /\ \E s \in slots : /\ s.id = req[p].slotId /\ s.status = "booked"
                            /\ s.scholar_id = req[p].user.id
                            /\ s.meeting_link = req[p].meetingLink

\* The rows stored with a slot id.
Row(table, id) == {s \in table : s.id = id}

\* What a request leaves of the row s of its slot when it runs alone: r is
\* the request with its response, pc the call it ended at.
Alone(s, r, pc) ==
    IF r.op = "book"
    THEN IF r.resp = 200 \/ (r.resp = 500 /\ pc = "refetch")
         THEN {BookedRow(s, r)} ELSE {s}
    ELSE IF r.resp = 200 THEN {} ELSE {s}

\* C27: a step of a booking or of a delete that names slot a leaves every
\* row with another id as it is and adds none; a booking keeps the row of a
\* and its faculty_id, date, start_time and end_time.  When the requests of
\* a behaviour name different slots, each request, however the others are
\* interleaved with it, leaves of its slot what it leaves when it runs
\* alone on the initial row: the final store is the one of running the
\* requests one after the other, in any order.
C27_OtherSlotsUntouched ==
    [][\A p \in Procs :
          (Acting(p).op \in {"book", "delete"} /\ req'[p] # req[p])
          => LET r == Acting(p)
                 a == r.slotId
             IN /\ \A s \in slots \cup slots' : s.id # a => (s \in slots /\ s \in slots')
                /\ r.op = "book"
                     => /\ Cardinality(Row(slots', a)) = Cardinality(Row(slots, a))
                        /\ \A s \in Row(slots, a), t \in Row(slots', a) :
                              /\ t.faculty_id = s.faculty_id /\ t.date = s.date
                              /\ t.start_time = s.start_time /\ t.end_time = s.end_time
                /\ (out'.pc = "done" /\ a \in 1..MaxRequests)
                     => Row(slots', a)
                           = Alone(CHOOSE s \in PairSlots : s.id = a, out', req[p].pc)]_vars

\* Two bookings of different slots were in flight together and each has
\* written its own slot.
C27_Witness ==
    \E p, q \in Procs :
        /\ p # q
        /\ req[p].op = "book" /\ req[p].pc = "refetch"
        /\ req[q].op = "book" /\ req[q].pc = "refetch"
        /\ req[p].slotId # req[q].slotId
        /\ \A x \in {p, q} : \E s \in slots : /\ s.id = req[x].slotId
                                               /\ s.status = "booked"
                                               /\ s.scholar_id = req[x].user.id

\* No two rows of a table have the same email.
UniqueEmail(table) == \A x, y \in table : x.email = y.email => x = y

\* C28: in every reachable state users holds at most one identity per email
\* and user_roles at most one record per email; a login that comes to insert
\* the identity of an email that has one by then is answered 500 and inserts
\* nothing.
C28_OneIdentityPerEmail ==
    /\ [](UniqueEmail(users) /\ UniqueEmail(user_roles))
    /\ [][\A p \in Procs :
            (req[p].op = "login" /\ req[p].pc = "insertUser" /\ req'[p] # req[p]
                /\ Identities(users, req[p].email) # {})
            => /\ out'.resp = 500 /\ out'.error = "Authentication failed"
               /\ users' = users /\ user_roles' = user_roles /\ tokens' = tokens]_vars

\* Two first logins of n@x ran together: one created the identity, the other
\* one lost the insert and was answered 500; n@x has one identity and one
\* role record.
C28_Witness ==
    /\ out.op = "login" /\ out.email = "n@x" /\ out.resp = 500 /\ ~out.created
    /\ Cardinality(Identities(users, "n@x")) = 1
    /\ Cardinality({x \in user_roles : x.email = "n@x"}) = 1

\* The most trigger function runs one statement can start: sync_user_role,
\* sync_role_to_user_roles, and once more each for the upsert of the latter.
MaxCascade == 4

\* Every statement that can run in this state ends its cascade within
\* MaxCascade trigger runs.
CascadeEnds ==
    \A email \in Targets, role \in Roles :
        /\ UpsertUserRole(Db, email, role).fired \in 1..MaxCascade
        /\ UpdateUsersWhere({t \in users : t.email = email}, role).fired \in 0..MaxCascade

\* The identity and the record of the email both have the role.
SyncedAt(email, role) ==
    /\ \A u \in Identities(users, email) : u.role = role
    /\ \A x \in user_roles : x.email = email => x.role = role

\* C29: the cascade of every statement that writes a role to user_roles
\* (insert or update) or to users (update) ends, and when that statement has
\* run, users.role of the identity with its email and user_roles.role of
\* that email both equal the role it wrote.
C29_CascadeSyncs ==
    /\ CascadeEnds
    /\ out.op \in {"upsert", "update"} => SyncedAt(out.email, out.role)

\* C30: no step of a login changes the role of a user_roles record that
\* exists when the step is taken, whatever other requests are in progress.
C30_LoginKeepsAssignment ==
    [][\A p \in Procs :
        (req'[p] # req[p] /\ Acting(p).op = "login")
        => \A x \in user_roles : \E y \in user_roles' : y.email = x.email /\ y.role = x.role]_vars

=============================================================================
